---------------------------- MODULE Spec2Model ----------------------------
(***************************************************************************)
(* A model of the calculator in calc/common.ts: the token variants and     *)
(* their append contract, the Formula editing automaton, the RPN           *)
(* evaluator, the serialization codec, the Environment (history and its    *)
(* persisted copy) and the button handlers wired at the end of the file.   *)
(*                                                                         *)
(* A token is a record with the fields of all variants (k is the variant's *)
(* CLASS_NAME); a digit-string is a sequence of one-character strings.     *)
(* Token objects are never shared between the live formula and the history *)
(* (clone() and deserializeToken() build fresh objects, OpenToken and      *)
(* EqToken carry no fields), so tokens are modelled as values.             *)
(***************************************************************************)
EXTENDS Integers, Sequences, FiniteSets, TLC

\* ------------------------------------------------------------------ bounds
\* Largest weight of the live formula: tokens at every depth, a Number
\* counting one per character of its digit-string.
MaxSize == 5
\* Largest weight of the live formula and the history's formulas together,
\* in a session (Spec) and in a session of sums (SpecScript).
MaxTotal == 7
\* Largest weight of the live formula and the history together in a session
\* that chains answers
MaxAnswers == 9
MaxScript == 9
\* Largest weight of the expression typed in SpecRPN.
MaxExpr == 6
\* Largest ID a history entry gets in SpecHistory.
MaxID == 66
\* Largest ID of an entry deleted from between others in SpecHistory.
MaxDeleted == 3
\* Largest ID a history entry gets in SpecLoad.
MaxLoaded == 3
\* Magnitudes above this are not computed exactly (see Other).
IntLimit == 100000

\* ------------------------------------------------------------ input alphabets
\* The keys the model presses (the page has eleven digit keys, six binary
\* operators and three unary operators; keys of one class that the code
\* treats alike are represented by one or two of them).
Digits == {"0", "2", "."}
BinOps == {"add", "mul"}
UnOps == {"reciprocal", "sqrt", "neg"}

\* const enum Precedence
Precedence ==
    [eq |-> 0, open |-> 1, add |-> 2, mul |-> 3, pow |-> 4, unary |-> 5, symbol |-> 6]

Last(s) == s[Len(s)]
Front(s) == SubSeq(s, 1, Len(s) - 1)

\* ------------------------------------------------------------------ tokens
Token(k, negative, number, op, tokens) ==
    [k |-> k, negative |-> negative, number |-> number, op |-> op, tokens |-> tokens]

\* NumberToken.constructor
NumberToken(init) ==
    Token("n", FALSE, IF init = "." THEN <<"0", ".">> ELSE <<init>>, "", <<>>)
\* BinaryToken.constructor
BinaryToken(op) == Token("b", FALSE, <<>>, op, <<>>)
\* UnaryToken.constructor
UnaryToken(op) == Token("u", FALSE, <<>>, op, <<>>)
\* GroupToken.constructor
GroupToken(tokens) == Token("g", FALSE, <<>>, "", tokens)
\* SymbolToken.constructor
SymbolToken(op) == Token("s", FALSE, <<>>, op, <<>>)
\* new OpenToken()
OpenToken == Token("o", FALSE, <<>>, "", <<>>)
\* new EqToken()
EqToken == Token("e", FALSE, <<>>, "", <<>>)

\* What an append method hands back: its AppendResult and the token as the
\* method left it (the methods mutate the token in place).
Ret(result, token) == [result |-> result, token |-> token]

\* /\./.test(this.number)
HasDot(number) == \E i \in 1..Len(number) : number[i] = "."

\* ---- NumberToken
\* A faulty NumberToken.appendDigit that appends the second "." before it
\* answers `failed`
NumberToken_appendDigit_dirty(t, digit) ==
    IF digit = "." /\ HasDot(t.number)
    THEN Ret("failed", [t EXCEPT !.number = t.number \o <<digit>>])
    ELSE LET cur == IF digit # "." /\ t.number = <<"0">> THEN <<>> ELSE t.number
         IN  Ret("replaced", [t EXCEPT !.number = cur \o <<digit>>])
\* (faulty: a digit is appended to "0" as to any other digit-string)
NumberToken_appendDigit_prefix(t, digit) ==
    IF digit = "." /\ HasDot(t.number)
    THEN Ret("failed", t)
    ELSE Ret("replaced", [t EXCEPT !.number = t.number \o <<digit>>])
NumberToken_appendDigit(t, digit) ==
    IF digit = "." /\ HasDot(t.number)
    THEN Ret("failed", t)
    ELSE LET cur == IF digit # "." /\ t.number = <<"0">> THEN <<>> ELSE t.number
         IN  Ret("replaced", [t EXCEPT !.number = cur \o <<digit>>])
NumberToken_appendBinary(t, op) == Ret("createAfter", t)
NumberToken_appendUnary(t, op) ==
    IF op = "neg"
    THEN Ret("replaced", [t EXCEPT !.negative = ~t.negative])
    ELSE Ret("createAfter", t)
NumberToken_appendSymbol(t) == Ret("deleteAndCreate", t)
\* (faulty: the Open marker goes after the Number)
NumberToken_appendOpen_after(t) == Ret("createAfter", t)
NumberToken_appendOpen(t) == Ret("createBefore", t)
NumberToken_appendClose(t) == Ret("createAfter", t)
\* (faulty: the shortened Number loses its sign)
NumberToken_backspace_unsigned(t) ==
    IF Len(t.number) > 1
    THEN [token |-> [t EXCEPT !.number = SubSeq(t.number, 1, Len(t.number) - 1),
                              !.negative = FALSE],
          ret |-> FALSE]
    ELSE [token |-> t, ret |-> TRUE]
\* NumberToken.backspace: the token after the call and the boolean returned
NumberToken_backspace(t) ==
    IF Len(t.number) > 1
    THEN [token |-> [t EXCEPT !.number = SubSeq(t.number, 1, Len(t.number) - 1)],
          ret |-> FALSE]
    ELSE [token |-> t, ret |-> TRUE]

\* ---- BinaryToken
BinaryToken_appendDigit(t, digit) == Ret("createAfter", t)
\* (faulty: a second operator is put after the first)
BinaryToken_appendBinary_after(t, op) == Ret("createAfter", t)
BinaryToken_appendBinary(t, op) == Ret("replaced", [t EXCEPT !.op = op])
BinaryToken_appendUnary(t, op) == Ret("failed", t)
BinaryToken_appendSymbol(t) == Ret("createAfter", t)
BinaryToken_appendOpen(t) == Ret("createAfter", t)
BinaryToken_appendClose(t) == Ret("failed", t)

\* ---- UnaryToken
\* (faulty: a digit is accepted after a Unary operator)
UnaryToken_appendDigit_after(t, digit) == Ret("createAfter", t)
UnaryToken_appendDigit(t, digit) == Ret("failed", t)
UnaryToken_appendBinary(t, op) == Ret("createAfter", t)
\* (faulty: a repeated operator is put after the first)
UnaryToken_appendUnary_stacks(t, op) == Ret("createAfter", t)
UnaryToken_appendUnary(t, op) ==
    IF op = t.op /\ op \in {"neg", "reciprocal"}
    THEN Ret("backspace", t)
    ELSE Ret("createAfter", t)
UnaryToken_appendSymbol(t) == Ret("failed", t)
UnaryToken_appendOpen(t) == Ret("failed", t)
UnaryToken_appendClose(t) == Ret("createAfter", t)

\* ---- GroupToken
GroupToken_appendDigit(t, digit) == Ret("failed", t)
GroupToken_appendBinary(t, op) == Ret("createAfter", t)
GroupToken_appendUnary(t, op) == Ret("createAfter", t)
GroupToken_appendSymbol(t) == Ret("failed", t)
GroupToken_appendOpen(t) == Ret("failed", t)
GroupToken_appendClose(t) == Ret("createAfter", t)

\* ---- SymbolToken
SymbolToken_appendDigit(t, digit) == Ret("deleteAndCreate", t)
SymbolToken_appendBinary(t, op) == Ret("createAfter", t)
SymbolToken_appendUnary(t, op) == Ret("createAfter", t)
SymbolToken_appendSymbol(t) == Ret("deleteAndCreate", t)
SymbolToken_appendOpen(t) == Ret("createBefore", t)
SymbolToken_appendClose(t) == Ret("createAfter", t)

\* ---- OpenToken
OpenToken_appendDigit(t, digit) == Ret("createAfter", t)
OpenToken_appendBinary(t, op) == Ret("failed", t)
OpenToken_appendUnary(t, op) == Ret("failed", t)
OpenToken_appendSymbol(t) == Ret("createAfter", t)
OpenToken_appendOpen(t) == Ret("createAfter", t)
\* (faulty: empty parentheses are closed)
OpenToken_appendClose_empty(t) == Ret("createAfter", t)
OpenToken_appendClose(t) == Ret("failed", t)

\* ---- EqToken
EqToken_appendDigit(t, digit) == Ret("createAfter", t)
EqToken_appendBinary(t, op) == Ret("insertAnsAndCreate", t)
\* A faulty EqToken.appendUnary that answers like EqToken.appendDigit
EqToken_appendUnary_after(t, op) == Ret("createAfter", t)
EqToken_appendUnary(t, op) == Ret("insertAnsAndCreate", t)
EqToken_appendSymbol(t) == Ret("createAfter", t)
EqToken_appendOpen(t) == Ret("createAfter", t)
EqToken_appendClose(t) == Ret("failed", t)

\* ---- interface Token: the call t.appendX(...) on a token of any variant
Token_appendDigit(t, digit) ==
    CASE t.k = "n" -> NumberToken_appendDigit(t, digit)
      [] t.k = "b" -> BinaryToken_appendDigit(t, digit)
      [] t.k = "u" -> UnaryToken_appendDigit(t, digit)
      [] t.k = "g" -> GroupToken_appendDigit(t, digit)
      [] t.k = "s" -> SymbolToken_appendDigit(t, digit)
      [] t.k = "o" -> OpenToken_appendDigit(t, digit)
      [] t.k = "e" -> EqToken_appendDigit(t, digit)
Token_appendBinary(t, op) ==
    CASE t.k = "n" -> NumberToken_appendBinary(t, op)
      [] t.k = "b" -> BinaryToken_appendBinary(t, op)
      [] t.k = "u" -> UnaryToken_appendBinary(t, op)
      [] t.k = "g" -> GroupToken_appendBinary(t, op)
      [] t.k = "s" -> SymbolToken_appendBinary(t, op)
      [] t.k = "o" -> OpenToken_appendBinary(t, op)
      [] t.k = "e" -> EqToken_appendBinary(t, op)
Token_appendUnary(t, op) ==
    CASE t.k = "n" -> NumberToken_appendUnary(t, op)
      [] t.k = "b" -> BinaryToken_appendUnary(t, op)
      [] t.k = "u" -> UnaryToken_appendUnary(t, op)
      [] t.k = "g" -> GroupToken_appendUnary(t, op)
      [] t.k = "s" -> SymbolToken_appendUnary(t, op)
      [] t.k = "o" -> OpenToken_appendUnary(t, op)
      [] t.k = "e" -> EqToken_appendUnary(t, op)
Token_appendSymbol(t) ==
    CASE t.k = "n" -> NumberToken_appendSymbol(t)
      [] t.k = "b" -> BinaryToken_appendSymbol(t)
      [] t.k = "u" -> UnaryToken_appendSymbol(t)
      [] t.k = "g" -> GroupToken_appendSymbol(t)
      [] t.k = "s" -> SymbolToken_appendSymbol(t)
      [] t.k = "o" -> OpenToken_appendSymbol(t)
      [] t.k = "e" -> EqToken_appendSymbol(t)
Token_appendOpen(t) ==
    CASE t.k = "n" -> NumberToken_appendOpen(t)
      [] t.k = "b" -> BinaryToken_appendOpen(t)
      [] t.k = "u" -> UnaryToken_appendOpen(t)
      [] t.k = "g" -> GroupToken_appendOpen(t)
      [] t.k = "s" -> SymbolToken_appendOpen(t)
      [] t.k = "o" -> OpenToken_appendOpen(t)
      [] t.k = "e" -> EqToken_appendOpen(t)
Token_appendClose(t) ==
    CASE t.k = "n" -> NumberToken_appendClose(t)
      [] t.k = "b" -> BinaryToken_appendClose(t)
      [] t.k = "u" -> UnaryToken_appendClose(t)
      [] t.k = "g" -> GroupToken_appendClose(t)
      [] t.k = "s" -> SymbolToken_appendClose(t)
      [] t.k = "o" -> OpenToken_appendClose(t)
      [] t.k = "e" -> EqToken_appendClose(t)

\* The closure a Formula method passes to appendToLastToken, as the method
\* name m and its argument; the call action(lastToken).
CallAction(action, t) ==
    CASE action.m = "appendDigit" -> Token_appendDigit(t, action.arg)
      [] action.m = "appendBinary" -> Token_appendBinary(t, action.arg)
      [] action.m = "appendUnary" -> Token_appendUnary(t, action.arg)
      [] action.m = "appendSymbol" -> Token_appendSymbol(t)
      [] action.m = "appendOpen" -> Token_appendOpen(t)
      [] action.m = "appendClose" -> Token_appendClose(t)

\* BinaryToken.precedence
BinaryToken_precedence(t) ==
    CASE t.op \in {"add", "sub"} -> Precedence.add
      [] t.op \in {"mul", "div"} -> Precedence.mul
      [] t.op \in {"pow", "ee"} -> Precedence.pow
\* token.precedence() on a token of any variant
precedence(t) ==
    CASE t.k = "n" -> Precedence.symbol
      [] t.k = "b" -> BinaryToken_precedence(t)
      [] t.k = "u" -> Precedence.unary
      [] t.k = "g" -> Precedence.symbol
      [] t.k = "s" -> Precedence.symbol
      [] t.k = "o" -> Precedence.open
      [] t.k = "e" -> Precedence.eq

\* ----------------------------------------------------------------- Formula
\* Formula.handleAppendResult: the token array after the call
handleAppendResult(tokens, appendResult, newToken) ==
    CASE appendResult = "createAfter" -> Append(tokens, newToken)
      [] appendResult = "insertAnsAndCreate" ->
            tokens \o <<SymbolToken("ans"), newToken>>
      [] appendResult = "deleteAndCreate" ->
            IF Len(tokens) = 0 THEN tokens
            ELSE [tokens EXCEPT ![Len(tokens)] = newToken]
      [] appendResult = "createBefore" ->
            IF Len(tokens) = 0 THEN <<newToken>>
            ELSE Append(Front(tokens), newToken) \o <<Last(tokens)>>
      [] appendResult = "backspace" -> Front(tokens)
      [] OTHER -> tokens

\* A faulty appendToLastToken that never empties the token array
lastTokenActed_keeps(tokens, r) ==
    [result |-> r.result, tokens |-> [tokens EXCEPT ![Len(tokens)] = r.token]]

\* Formula.appendToLastToken once action has run on the last token and
\* returned r: `if (token instanceof EqToken && result !== Failed)
\* this.tokens = []`
lastTokenActed(tokens, r) ==
    [result |-> r.result,
     tokens |-> IF Last(tokens).k = "e" /\ r.result # "failed"
                THEN <<>>
                ELSE [tokens EXCEPT ![Len(tokens)] = r.token]]

\* Formula.appendToLastToken: the AppendResult returned and the token array
\* after the call (the last token as action left it, or emptied)
appendToLastToken(tokens, defaultResult, action) ==
    IF Len(tokens) = 0
    THEN [result |-> defaultResult, tokens |-> tokens]
    ELSE lastTokenActed(tokens, CallAction(action, Last(tokens)))

\* this.handleAppendResult(a, newToken) with a what appendToLastToken
\* returned: the AppendResult and the token array after the call
handled(a, newToken) ==
    [result |-> a.result,
     tokens |-> handleAppendResult(a.tokens, a.result, newToken)]

\* Formula.appendDigit .. Formula.appendOpen: the last token's AppendResult
\* and the token array after the call
Formula_appendDigit(tokens, digit) ==
    handled(appendToLastToken(tokens, "createAfter",
                              [m |-> "appendDigit", arg |-> digit]),
            NumberToken(digit))
Formula_appendBinary(tokens, op) ==
    handled(appendToLastToken(tokens, "insertAnsAndCreate",
                              [m |-> "appendBinary", arg |-> op]),
            BinaryToken(op))
Formula_appendUnary(tokens, op) ==
    handled(appendToLastToken(tokens, "insertAnsAndCreate",
                              [m |-> "appendUnary", arg |-> op]),
            UnaryToken(op))
Formula_appendSymbol(tokens, op) ==
    handled(appendToLastToken(tokens, "createAfter",
                              [m |-> "appendSymbol", arg |-> op]),
            SymbolToken(op))
Formula_appendOpen(tokens) ==
    handled(appendToLastToken(tokens, "createAfter",
                              [m |-> "appendOpen", arg |-> ""]),
            OpenToken)

\* The index (from 1) of the closest OpenToken scanning from the end, 0 if none
RECURSIVE findOpen(_, _)
\* A faulty scan that takes the first OpenToken of the array instead
findOpen_first(tokens, i) ==
    IF \E j \in 1..i : tokens[j].k = "o"
    THEN CHOOSE j \in 1..i : tokens[j].k = "o" /\ \A k \in 1..(j - 1) : tokens[k].k # "o"
    ELSE 0
findOpen(tokens, i) ==
    IF i = 0 THEN 0
    ELSE IF tokens[i].k = "o" THEN i
    ELSE findOpen(tokens, i - 1)

\* A faulty appendClose that, finding no OpenToken, groups the whole array
\* before it returns false
closeAfter_unmatched(a) ==
    LET i == findOpen(a.tokens, Len(a.tokens))
    IN  CASE a.result = "failed" ->
                [result |-> a.result, ret |-> FALSE, threw |-> FALSE,
                 tokens |-> a.tokens]
          [] a.result = "createAfter" ->
                [result |-> a.result, ret |-> i > 0, threw |-> FALSE,
                 tokens |-> Append(SubSeq(a.tokens, 1, i - 1),
                                   GroupToken(SubSeq(a.tokens, i + 1, Len(a.tokens))))]
          [] OTHER ->
                [result |-> a.result, ret |-> FALSE, threw |-> TRUE,
                 tokens |-> a.tokens]

\* Formula.appendClose from its `switch` on, with a what appendToLastToken
\* returned
closeAfter(a) ==
    LET i == findOpen(a.tokens, Len(a.tokens))
    IN  CASE a.result = "failed" ->
                [result |-> a.result, ret |-> FALSE, threw |-> FALSE,
                 tokens |-> a.tokens]
          [] a.result = "createAfter" ->
                IF i > 0
                THEN [result |-> a.result, ret |-> TRUE, threw |-> FALSE,
                      tokens |-> Append(SubSeq(a.tokens, 1, i - 1),
                                  GroupToken(SubSeq(a.tokens, i + 1, Len(a.tokens))))]
                ELSE [result |-> a.result, ret |-> FALSE, threw |-> FALSE,
                      tokens |-> a.tokens]
          [] OTHER ->
                [result |-> a.result, ret |-> FALSE, threw |-> TRUE,
                 tokens |-> a.tokens]

\* Formula.appendClose: the last token's AppendResult, the boolean returned,
\* whether the call threw, and the token array after the call
Formula_appendClose(tokens) ==
    closeAfter(appendToLastToken(tokens, "failed",
                                 [m |-> "appendClose", arg |-> ""]))

\* A faulty backspace that unwraps a GroupToken without its OpenToken
Formula_backspace_noOpen(tokens) ==
    IF Len(tokens) = 0 THEN tokens
    ELSE LET token == Last(tokens)
             rest == Front(tokens)
         IN  CASE token.k = "n" ->
                    LET b == NumberToken_backspace(token)
                    IN  IF ~b.ret THEN Append(rest, b.token) ELSE rest
               [] token.k = "g" -> rest \o token.tokens
               [] OTHER -> rest

\* Formula.backspace: the token array after the call
Formula_backspace(tokens) ==
    IF Len(tokens) = 0 THEN tokens
    ELSE LET token == Last(tokens)
             rest == Front(tokens)
         IN  CASE token.k = "n" ->
                    LET b == NumberToken_backspace(token)
                    IN  IF ~b.ret THEN Append(rest, b.token) ELSE rest
               [] token.k = "g" -> Append(rest, OpenToken) \o token.tokens
               [] OTHER -> rest

\* Formula.partial, the inner loop `while (start > 0)`: the value of start
\* when it ends and whether it ended by `break outside`. Indices are the
\* code's (from 0): tokens[i] of the code is tokens[i + 1] here.
RECURSIVE partialInner(_, _, _)
\* A faulty inner loop that also stops at a token of equal precedence
partialInner_equal(tokens, start, prec) ==
    IF start > 0
    THEN IF precedence(tokens[start]) <= prec
         THEN [start |-> start, broke |-> TRUE]
         ELSE partialInner(tokens, start - 1, prec)
    ELSE [start |-> start, broke |-> FALSE]
partialInner(tokens, start, prec) ==
    IF start > 0
    THEN IF precedence(tokens[start]) < prec
         THEN [start |-> start, broke |-> TRUE]
         ELSE partialInner(tokens, start - 1, prec)
    ELSE [start |-> start, broke |-> FALSE]

\* Formula.partial, the loop `outside: while (start >= 0)`: start and end
\* when it ends
RECURSIVE partialOuter(_, _, _)
partialOuter(tokens, start, end) ==
    IF start >= 0
    THEN LET prec == precedence(tokens[start + 1])
         IN  CASE prec = Precedence.symbol -> [start |-> start, end |-> end]
               [] prec = Precedence.eq -> [start |-> 0, end |-> end - 1]
               [] prec = Precedence.unary -> partialOuter(tokens, start - 1, end)
               [] prec = Precedence.open -> partialOuter(tokens, start - 1, end - 1)
               [] OTHER ->
                    LET inner == partialInner(tokens, start, prec)
                    IN  IF inner.broke
                        THEN [start |-> inner.start, end |-> end - 1]
                        ELSE partialOuter(tokens, inner.start, end - 1)
    ELSE [start |-> start, end |-> end]

\* A faulty partial that slices to the end of the array, not to `end`
partial_toLength(tokens) ==
    LET w == partialOuter(tokens, Len(tokens) - 1, Len(tokens))
        start == IF w.start < 0 THEN 0 ELSE w.start
    IN  IF start >= w.end
        THEN <<NumberToken("0")>>
        ELSE SubSeq(tokens, start + 1, Len(tokens))

\* Formula.partial
partial(tokens) ==
    LET w == partialOuter(tokens, Len(tokens) - 1, Len(tokens))
        start == IF w.start < 0 THEN 0 ELSE w.start
    IN  IF start >= w.end
        THEN <<NumberToken("0")>>
        ELSE SubSeq(tokens, start + 1, w.end)

\* A faulty appendEq that calls appendClose once, not until it returns false
closeAll_once(c) == c.tokens

\* Formula.appendEq, `while (this.appendClose()) { }`, with c what the call
\* of appendClose just made returned: the token array when the loop ends
RECURSIVE closeAll(_)
closeAll(c) ==
    IF c.ret THEN closeAll(Formula_appendClose(c.tokens)) ELSE c.tokens

\* A faulty appendEq without the early return
eqAfter_unguarded(a) ==
    [result |-> a.result,
     tokens |-> Append(closeAll(Formula_appendClose(a.tokens)), EqToken)]

\* Formula.appendEq from its `if` on, with a what appendToLastToken returned
eqAfter(a) ==
    IF a.result # "createAfter"
    THEN [result |-> a.result, tokens |-> a.tokens]
    ELSE [result |-> a.result,
          tokens |-> Append(closeAll(Formula_appendClose(a.tokens)), EqToken)]

\* Formula.appendEq: the AppendResult of the first probe and the token array
\* after the call
Formula_appendEq(tokens) ==
    eqAfter(appendToLastToken(tokens, "failed",
                              [m |-> "appendClose", arg |-> ""]))

\* Formula.isComplete
isComplete(tokens) == Len(tokens) > 0 /\ Last(tokens).k = "e"

\* ------------------------------------------------------------------ numbers
(***************************************************************************)
(* A JavaScript number is modelled exactly when it is an integer of        *)
(* magnitude at most IntLimit.  Every other number (a fraction, NaN, an    *)
(* infinity, a larger magnitude) is the one value Other, which the model   *)
(* does not compute further: an operation on Other gives Other unless the  *)
(* code's result does not depend on that operand.  Undefined is the value  *)
(* read from an empty number stack.                                        *)
(***************************************************************************)
Int_(n) == [t |-> "int", v |-> n]
Other == [t |-> "other", v |-> 0]
Undefined == [t |-> "undefined", v |-> 0]
NoResult == [t |-> "none", v |-> 0]

Abs(n) == IF n < 0 THEN -n ELSE n
Norm(n) == IF Abs(n) > IntLimit THEN Other ELSE Int_(n)
IsInt(x) == x.t = "int"

\* A faulty `left + right` that subtracts
NumAdd_minus(a, b) == IF IsInt(a) /\ IsInt(b) THEN Norm(a.v - b.v) ELSE Other
\* left + right, left - right
NumAdd(a, b) == IF IsInt(a) /\ IsInt(b) THEN Norm(a.v + b.v) ELSE Other
NumSub(a, b) == IF IsInt(a) /\ IsInt(b) THEN Norm(a.v - b.v) ELSE Other
\* left * right
NumMul(a, b) ==
    IF IsInt(a) /\ IsInt(b)
    THEN IF a.v = 0 \/ b.v = 0 THEN Int_(0)
         ELSE IF Abs(a.v) > IntLimit \div Abs(b.v) THEN Other
         ELSE Int_(a.v * b.v)
    ELSE Other
\* left / right
NumDiv(a, b) ==
    IF IsInt(a) /\ IsInt(b) /\ b.v # 0 /\ Abs(a.v) % Abs(b.v) = 0
    THEN LET q == Abs(a.v) \div Abs(b.v)
         IN  Int_(IF (a.v < 0) = (b.v < 0) THEN q ELSE -q)
    ELSE Other
\* Math.pow(left, right), a positive integer power by repeated squaring
NumSquare(a) == NumMul(a, a)
RECURSIVE NumPow(_, _)
NumPow(a, b) ==
    IF IsInt(b) /\ b.v = 0 THEN Int_(1)
    ELSE IF ~(IsInt(a) /\ IsInt(b)) THEN Other
    ELSE IF b.v > 0 /\ b.v % 2 = 0 THEN NumSquare(NumPow(a, Int_(b.v \div 2)))
    ELSE IF b.v > 0 THEN NumMul(a, NumPow(a, Int_(b.v - 1)))
    ELSE IF a.v = 1 THEN Int_(1)
    ELSE IF a.v = -1 THEN Int_(IF b.v % 2 = 0 THEN 1 ELSE -1)
    ELSE Other
\* Math.sqrt(x): the largest r in lo..hi with r * r <= n, by bisection
RECURSIVE isqrt(_, _, _)
isqrt(n, lo, hi) ==
    IF lo >= hi THEN lo
    ELSE LET mid == (lo + hi + 1) \div 2
         IN  IF mid <= n \div mid THEN isqrt(n, mid, hi) ELSE isqrt(n, lo, mid - 1)
NumSqrt(a) ==
    IF IsInt(a) /\ a.v >= 0 /\ isqrt(a.v, 0, a.v) * isqrt(a.v, 0, a.v) = a.v
    THEN Int_(isqrt(a.v, 0, a.v))
    ELSE Other
\* 1 / x
NumReciprocal(a) == IF IsInt(a) /\ a.v \in {1, -1} THEN a ELSE Other
\* -x
NumNeg(a) == IF IsInt(a) THEN Int_(-a.v) ELSE Other

DigitValue(c) ==
    CASE c = "0" -> 0 [] c = "1" -> 1 [] c = "2" -> 2 [] c = "3" -> 3
      [] c = "4" -> 4 [] c = "5" -> 5 [] c = "6" -> 6 [] c = "7" -> 7
      [] c = "8" -> 8 [] c = "9" -> 9
\* parseFloat(this.number) of a digit-string (digits with at most one ".")
RECURSIVE parseDigits(_, _, _, _)
parseDigits(number, i, acc, afterDot) ==
    IF i > Len(number) THEN Norm(acc)
    ELSE IF number[i] = "." THEN parseDigits(number, i + 1, acc, TRUE)
    ELSE IF afterDot
         THEN IF number[i] = "0" THEN parseDigits(number, i + 1, acc, TRUE)
              ELSE Other
    ELSE IF acc > IntLimit THEN Other
    ELSE parseDigits(number, i + 1, acc * 10 + DigitValue(number[i]), FALSE)
parseFloat(number) == parseDigits(number, 1, 0, FALSE)

\* ------------------------------------------------------------ RPN evaluator
\* toRPN, the loop `while ((op = ops.pop()))`: result and ops when it ends
RECURSIVE popOps(_, _, _)
\* A faulty loop that keeps an operator of equal precedence on the stack
popOps_strict(result, ops, prec) ==
    IF Len(ops) = 0 THEN [result |-> result, ops |-> ops]
    ELSE IF precedence(Last(ops)) > prec
         THEN popOps(Append(result, Last(ops)), Front(ops), prec)
         ELSE [result |-> result, ops |-> ops]
popOps(result, ops, prec) ==
    IF Len(ops) = 0 THEN [result |-> result, ops |-> ops]
    ELSE IF precedence(Last(ops)) >= prec
         THEN popOps(Append(result, Last(ops)), Front(ops), prec)
         ELSE [result |-> result, ops |-> ops]

Reverse(s) == [i \in 1..Len(s) |-> s[Len(s) + 1 - i]]

\* toRPN, the loop over the tokens from the i-th on
RECURSIVE toRPNFrom(_, _, _, _)
toRPNFrom(tokens, i, result, ops) ==
    IF i > Len(tokens) THEN result \o Reverse(ops)
    ELSE LET token == tokens[i]
             prec == precedence(token)
         IN  IF prec \in {Precedence.symbol, Precedence.unary}
             THEN toRPNFrom(tokens, i + 1, Append(result, token), ops)
             ELSE LET p == popOps(result, ops, prec)
                  IN  toRPNFrom(tokens, i + 1, p.result, Append(p.ops, token))
\* toRPN
toRPN(tokens) == toRPNFrom(tokens, 1, <<>>, <<>>)

\* What an evaluation gives: the number returned, whether it threw
\* ('should never evaluate ...'), and whether an operator was reduced with
\* an operand missing from the number stack.
Eval(value, threw, missing) == [value |-> value, threw |-> threw, missing |-> missing]
Arg(args, i) == IF i <= Len(args) THEN args[i] ELSE Undefined

\* NumberToken.evaluate
NumberToken_evaluate(t) ==
    LET n == parseFloat(t.number) IN IF t.negative THEN NumNeg(n) ELSE n
\* BinaryToken.evaluate
BinaryToken_evaluate(t, args) ==
    LET left == Arg(args, 1)
        right == Arg(args, 2)
    IN  CASE t.op = "add" -> NumAdd(left, right)
          [] t.op = "sub" -> NumSub(left, right)
          [] t.op = "mul" -> NumMul(left, right)
          [] t.op = "div" -> NumDiv(left, right)
          [] t.op = "pow" -> NumPow(left, right)
          [] t.op = "ee" -> NumMul(left, NumPow(Int_(10), right))
\* UnaryToken.evaluate
UnaryToken_evaluate(t, args) ==
    LET x == Arg(args, 1)
    IN  CASE t.op = "reciprocal" -> NumReciprocal(x)
          [] t.op = "sqrt" -> NumSqrt(x)
          [] t.op = "neg" -> NumNeg(x)
\* SymbolToken.evaluate; env is ENV.history
SymbolToken_evaluate(env) ==
    IF Len(env) > 0 THEN Last(env).ans ELSE Int_(0)

RECURSIVE evaluate(_, _, _)
RECURSIVE reduceFrom(_, _, _, _, _)
\* GroupToken.evaluate, the loop over toRPN(this.tokens) from the i-th on,
\* and `return numbers[0]`
reduceFrom(env, rpn, i, numbers, missing) ==
    IF i > Len(rpn)
    THEN Eval(IF Len(numbers) = 0 THEN Undefined ELSE numbers[1], FALSE, missing)
    ELSE LET token == rpn[i]
             prec == precedence(token)
             n == Len(numbers)
         IN  CASE prec = Precedence.symbol ->
                    LET e == evaluate(env, token, <<>>)
                    IN  IF e.threw THEN Eval(Undefined, TRUE, missing \/ e.missing)
                        ELSE reduceFrom(env, rpn, i + 1, Append(numbers, e.value),
                                        missing \/ e.missing)
               [] prec = Precedence.unary ->
                    IF n = 0
                    THEN reduceFrom(env, rpn, i + 1, numbers, TRUE)
                    ELSE LET e == evaluate(env, token, <<numbers[n]>>)
                         IN  reduceFrom(env, rpn, i + 1,
                                        [numbers EXCEPT ![n] = e.value], missing)
               [] OTHER ->
                    LET k == IF n >= 2 THEN 2 ELSE n
                        args == SubSeq(numbers, n - k + 1, n)
                        e == evaluate(env, token, args)
                    IN  IF e.threw THEN Eval(Undefined, TRUE, missing)
                        ELSE reduceFrom(env, rpn, i + 1,
                                        Append(SubSeq(numbers, 1, n - k), e.value),
                                        missing \/ k < 2)
\* GroupToken.evaluate
GroupToken_evaluate(env, tokens) == reduceFrom(env, toRPN(tokens), 1, <<>>, FALSE)
\* token.evaluate(env, ...args) on a token of any variant
evaluate(env, t, args) ==
    CASE t.k = "n" -> Eval(NumberToken_evaluate(t), FALSE, FALSE)
      [] t.k = "b" -> Eval(BinaryToken_evaluate(t, args), FALSE, FALSE)
      [] t.k = "u" -> Eval(UnaryToken_evaluate(t, args), FALSE, FALSE)
      [] t.k = "g" -> GroupToken_evaluate(env, t.tokens)
      [] t.k = "s" -> Eval(SymbolToken_evaluate(env), FALSE, FALSE)
      [] t.k = "o" -> Eval(Undefined, TRUE, FALSE)
      [] t.k = "e" -> Eval(Undefined, TRUE, FALSE)

\* -------------------------------------------------------------------- codec
\* NumberToken.clone .. SymbolToken.clone
\* (faulty: hands back the token itself, as OpenToken.clone does)
NumberToken_clone_same(t) == t
NumberToken_clone(t) ==
    [NumberToken("0") EXCEPT !.negative = t.negative, !.number = t.number]
BinaryToken_clone(t) == BinaryToken(t.op)
UnaryToken_clone(t) == UnaryToken(t.op)
SymbolToken_clone(t) == SymbolToken(t.op)
\* token.clone() on a token of any variant (GroupToken.clone clones its
\* tokens; OpenToken.clone and EqToken.clone return this)
RECURSIVE clone(_)
clone(t) ==
    CASE t.k = "n" -> NumberToken_clone(t)
      [] t.k = "b" -> BinaryToken_clone(t)
      [] t.k = "u" -> UnaryToken_clone(t)
      [] t.k = "g" -> GroupToken([i \in 1..Len(t.tokens) |-> clone(t.tokens[i])])
      [] t.k = "s" -> SymbolToken_clone(t)
      [] t.k = "o" -> t
      [] t.k = "e" -> t
\* tokens.map(t => t.clone())
cloneAll(tokens) == [i \in 1..Len(tokens) |-> clone(tokens[i])]

\* Token.renderInto, Formula.renderInto: the strings pushed for an array of
\* tokens
RECURSIVE renderInto(_)
Token_renderInto(t) ==
    CASE t.k = "n" ->
            <<"<span class=\"number\">", IF t.negative THEN "-" ELSE "">>
                \o t.number \o <<"</span>">>
      [] t.k = "b" -> <<"<span class=\"operator\">", t.op, "</span>">>
      [] t.k = "u" -> <<"<span class=\"operator\">", t.op, "</span>">>
      [] t.k = "g" ->
            <<"<span class=\"parenthesis\">(</span>">> \o renderInto(t.tokens)
                \o <<"<span class=\"parenthesis\">)</span>">>
      [] t.k = "s" -> <<"<span class=\"symbol\">", t.op, "</span>">>
      [] t.k = "o" -> <<"<span class=\"parenthesis\">(</span>">>
      [] t.k = "e" -> <<"<span class=\"eq\">=</span>">>
renderInto(tokens) ==
    IF Len(tokens) = 0 THEN <<>>
    ELSE Token_renderInto(Head(tokens)) \o renderInto(Tail(tokens))

\* JSON null
Null == "null"
\* serializeToken: [token.serializeTag(), token.serialize()]
RECURSIVE serializeToken(_)
\* (faulty: a Number is written without its sign)
serializeToken_unsigned(t) ==
    [tag |-> t.k,
     payload |->
        CASE t.k = "n" -> <<FALSE, t.number>>
          [] t.k = "g" -> [i \in 1..Len(t.tokens) |-> serializeToken(t.tokens[i])]
          [] t.k \in {"b", "u", "s"} -> t.op
          [] OTHER -> Null]
serializeToken(t) ==
    [tag |-> t.k,
     payload |->
        CASE t.k = "n" -> <<t.negative, t.number>>
          [] t.k = "b" -> t.op
          [] t.k = "u" -> t.op
          [] t.k = "g" -> [i \in 1..Len(t.tokens) |-> serializeToken(t.tokens[i])]
          [] t.k = "s" -> t.op
          [] t.k = "o" -> Null
          [] t.k = "e" -> Null]

\* deserializeToken: the token built, or threw ('cannot serialize token from')
RECURSIVE deserializeToken(_)
deserializeToken(json) ==
    CASE json.tag = "n" ->
            [threw |-> FALSE,
             token |-> [NumberToken("0") EXCEPT !.negative = json.payload[1],
                                                !.number = json.payload[2]]]
      [] json.tag = "b" ->
            [threw |-> FALSE, token |-> [BinaryToken("add") EXCEPT !.op = json.payload]]
      [] json.tag = "u" ->
            [threw |-> FALSE, token |-> [UnaryToken("neg") EXCEPT !.op = json.payload]]
      [] json.tag = "g" ->
            LET ds == [i \in 1..Len(json.payload) |-> deserializeToken(json.payload[i])]
            IN  [threw |-> \E i \in 1..Len(ds) : ds[i].threw,
                 token |-> GroupToken([i \in 1..Len(ds) |-> ds[i].token])]
      [] json.tag = "s" ->
            [threw |-> FALSE, token |-> [SymbolToken("ans") EXCEPT !.op = json.payload]]
      [] json.tag = "o" -> [threw |-> FALSE, token |-> OpenToken]
      [] json.tag = "e" -> [threw |-> FALSE, token |-> EqToken]
      [] OTHER -> [threw |-> TRUE, token |-> GroupToken(<<>>)]

\* -------------------------------------------------------------- Environment
MAX_HISTORY_COUNT == 64

\* localStorage: the item 'hI' (absent until first written) and the items
\* 'hV<id>' as a function of the ids present.  A JSON text is modelled by
\* the value it encodes.
NoStorage == [hI |-> [present |-> FALSE, value |-> <<>>], hV |-> <<>>]
\* (faulty: the stored value record stays)
RemoveItem_keeps(hV, id) == hV
RemoveItem(hV, id) == [i \in DOMAIN hV \ {id} |-> hV[i]]
SetItem(hV, id, value) ==
    [i \in DOMAIN hV \cup {id} |-> IF i = id THEN value ELSE hV[i]]

\* Environment.constructor, the body of the loop for an index whose stored
\* value is an Array: the entry pushed, or threw (deserializeToken's throw)
loadEntry(historyJSON) ==
    LET ds == [j \in 1..Len(historyJSON.formula) |->
                  deserializeToken(historyJSON.formula[j])]
    IN  [threw |-> \E j \in 1..Len(ds) : ds[j].threw,
         entry |-> [formula |-> [j \in 1..Len(ds) |-> ds[j].token],
                    ans |-> historyJSON.ans]]

\* Environment.constructor: historyIndices and history as it leaves them, or
\* threw.  The indices whose `hV${index}` is missing (JSON null) are skipped.
Environment_constructor(storage) ==
    LET historyIndices == IF storage.hI.present THEN storage.hI.value ELSE <<>>
        realHistoryIndices ==
            SelectSeq(historyIndices, LAMBDA index : index \in DOMAIN storage.hV)
        loaded == [i \in 1..Len(realHistoryIndices) |->
                      loadEntry(storage.hV[realHistoryIndices[i]])]
    IN  [threw |-> \E i \in 1..Len(loaded) : loaded[i].threw,
         historyIndices |-> realHistoryIndices,
         history |-> [i \in 1..Len(loaded) |-> loaded[i].entry]]

\* Environment.saveAns: the Environment and localStorage after the call
saveAns(env, storage, formula, ans) ==
    LET n == Len(env.historyIndices)
        nextHistoryID == IF n > 0 THEN env.historyIndices[n] + 1 ELSE 0
        evict == n >= MAX_HISTORY_COUNT
        indices == Append(IF evict THEN Tail(env.historyIndices)
                          ELSE env.historyIndices, nextHistoryID)
        hV1 == IF evict THEN RemoveItem(storage.hV, env.historyIndices[1])
               ELSE storage.hV
    IN  [historyIndices |-> indices,
         history |-> Append(IF evict THEN Tail(env.history) ELSE env.history,
                            [formula |-> formula, ans |-> ans]),
         storage |->
            [hI |-> [present |-> TRUE, value |-> indices],
             hV |-> SetItem(hV1, nextHistoryID,
                       [formula |-> [i \in 1..Len(formula) |-> serializeToken(formula[i])],
                        ans |-> ans])]]

\* (faulty: the persisted index list is not written)
deleteHistory_stale(env, storage, localIndex) ==
    [historyIndices |->
        SubSeq(env.historyIndices, 1, localIndex - 1)
            \o SubSeq(env.historyIndices, localIndex + 1, Len(env.historyIndices)),
     history |->
        SubSeq(env.history, 1, localIndex - 1)
            \o SubSeq(env.history, localIndex + 1, Len(env.history)),
     storage |->
        [hI |-> storage.hI,
         hV |-> RemoveItem(storage.hV, env.historyIndices[localIndex])]]

\* Environment.deleteHistory (localIndex counts from 1 here)
deleteHistory(env, storage, localIndex) ==
    LET Without(s) == SubSeq(s, 1, localIndex - 1) \o SubSeq(s, localIndex + 1, Len(s))
        indices == Without(env.historyIndices)
    IN  [historyIndices |-> indices,
         history |-> Without(env.history),
         storage |->
            [hI |-> [present |-> TRUE, value |-> indices],
             hV |-> RemoveItem(storage.hV, env.historyIndices[localIndex])]]

\* -------------------------------------------------------------------- state
VARIABLES
    tokens,          \* FORMULA.tokens
    historyIndices,  \* ENV.historyIndices
    history,         \* ENV.history: records [formula, ans]
    partialAns,      \* ENV.partialAns
    localStorage,    \* the browser's localStorage
    displayResult,   \* the number last handed to setResultNumber
    last,            \* the operation that ran last (see Ran)
    scenario         \* how many keys of "2 + 3 =" the session has typed from
                     \* its start, -1 once it has typed anything else

vars == <<tokens, historyIndices, history, partialAns, localStorage,
          displayResult, last, scenario>>
envVars == <<historyIndices, history, partialAns, localStorage, displayResult>>

\* The weight of a token array: its tokens at every depth, a Number counting
\* one per character of its digit-string.
RECURSIVE Weight(_)
RECURSIVE WeightOf(_)
WeightOf(t) ==
    CASE t.k = "n" -> Len(t.number)
      [] t.k = "g" -> 1 + Weight(t.tokens)
      [] OTHER -> 1
Weight(toks) == IF Len(toks) = 0 THEN 0 ELSE WeightOf(Head(toks)) + Weight(Tail(toks))

RECURSIVE HistoryWeight(_)
HistoryWeight(h) ==
    IF Len(h) = 0 THEN 0 ELSE Weight(Head(h).formula) + HistoryWeight(Tail(h))

\* The step leaves the live formula within the weight size, and the live
\* formula and the history together within the weight budget
Within(size, budget) ==
    /\ Weight(tokens') <= size
    /\ Weight(tokens') + HistoryWeight(history') <= budget

\* What `last` records of an operation: its name and argument, the
\* AppendResult the last token gave, the boolean returned (appendClose), and
\* whether the formula was complete when the operation began.
Ran(op, arg, result, ret) ==
    [op |-> op, arg |-> arg, result |-> result, ret |-> ret,
     complete |-> isComplete(tokens)]

Init ==
    /\ tokens = <<>>
    /\ historyIndices = <<>>
    /\ history = <<>>
    /\ partialAns = Int_(0)
    /\ localStorage = NoStorage
    /\ displayResult = NoResult
    /\ last = [op |-> "new", arg |-> "", result |-> "", ret |-> FALSE,
               complete |-> FALSE]
    /\ scenario = 0

\* ------------------------------------------------- the methods of FORMULA
\* FORMULA.tokens and `last` once the method op has run with argument arg
\* and r is what it gave
Appended(op, arg, r) ==
    /\ tokens' = r.tokens
    /\ last' = Ran(op, arg, r.result, FALSE)
Closed(r) ==
    /\ tokens' = r.tokens
    /\ last' = Ran(IF r.threw THEN "appendClose threw" ELSE "appendClose",
                   "", r.result, r.ret)

\* FORMULA.appendDigit(digit)
appendDigit(digit) == Appended("appendDigit", digit, Formula_appendDigit(tokens, digit))

\* FORMULA.appendBinary(op)
appendBinary(op) == Appended("appendBinary", op, Formula_appendBinary(tokens, op))

\* FORMULA.appendUnary(op)
appendUnary(op) == Appended("appendUnary", op, Formula_appendUnary(tokens, op))

\* FORMULA.appendSymbol(SymOp.ans)
appendSymbol == Appended("appendSymbol", "ans", Formula_appendSymbol(tokens, "ans"))

\* FORMULA.appendOpen()
appendOpen == Appended("appendOpen", "", Formula_appendOpen(tokens))

\* FORMULA.appendClose()
appendClose == Closed(Formula_appendClose(tokens))

\* FORMULA.backspace(); `last` records as its argument the kind of the token
\* it popped
Removed == IF Len(tokens) = 0 THEN "" ELSE Last(tokens).k
backspace ==
    /\ tokens' = Formula_backspace(tokens)
    /\ last' = Ran("backspace", Removed, "", FALSE)

\* FORMULA.appendEq()
appendEq == Appended("appendEq", "", Formula_appendEq(tokens))

\* FORMULA.tokens = []
allClear ==
    /\ tokens' = <<>>
    /\ last' = Ran("ac", "", "", FALSE)

\* The Formula object driven through its methods alone; the Environment
\* stays as constructed.
OnlyFormula == UNCHANGED <<envVars, scenario>> /\ Within(MaxSize, MaxSize)

NextFormula ==
    \/ \E digit \in Digits : appendDigit(digit) /\ OnlyFormula
    \/ \E op \in BinOps : appendBinary(op) /\ OnlyFormula
    \/ \E op \in UnOps : appendUnary(op) /\ OnlyFormula
    \/ appendSymbol /\ OnlyFormula
    \/ appendOpen /\ OnlyFormula
    \/ appendClose /\ OnlyFormula
    \/ backspace /\ OnlyFormula
    \/ appendEq /\ OnlyFormula
    \/ allClear /\ OnlyFormula

SpecFormula == Init /\ [][NextFormula]_vars

\* ------------------------------------------------------ the page's handlers
\* Where the scripted session "2 + 3 =" stands after key is pressed
Script == <<"n-2", "add", "n-3", "eq">>
Advance(key) ==
    IF scenario >= 0 /\ scenario < Len(Script) /\ Script[scenario + 1] = key
    THEN scenario + 1
    ELSE -1

\* ENV and localStorage once ENV.saveAns has run and given saved
Saved(saved) ==
    /\ historyIndices' = saved.historyIndices
    /\ history' = saved.history
    /\ localStorage' = saved.storage

\* refreshDisplay(e) from `ENV.partialAns = ans` on, with e what
\* `new GroupToken(FORMULA.partial()).evaluate(ENV)` gave (a throw ends the
\* handler there)
Refreshed(toks, target, e) ==
    IF e.threw
    THEN UNCHANGED envVars
    ELSE /\ partialAns' = e.value
         /\ displayResult' = e.value
         /\ IF isComplete(toks) /\ target = "eq"
            THEN Saved(saveAns([historyIndices |-> historyIndices,
                                history |-> history],
                               localStorage, cloneAll(toks), e.value))
            ELSE UNCHANGED <<historyIndices, history, localStorage>>

\* Faulty refreshDisplay: the formula is evaluated against an environment
\* without history
refreshDisplay_unbound(toks, target) ==
    Refreshed(toks, target, GroupToken_evaluate(<<>>, partial(toks)))

\* refreshDisplay(e), with toks the formula the button's own handler left
\* and target = e.target.id
refreshDisplay(toks, target) ==
    Refreshed(toks, target, GroupToken_evaluate(history, partial(toks)))

\* $('n-0') .. $('n-9'), $('dot'): onclick, then $('buttons').onclick
PressDigit(digit) ==
    /\ appendDigit(digit)
    /\ refreshDisplay(tokens', "n")
    /\ scenario' = Advance(IF digit = "." THEN "dot" ELSE "n-" \o digit)

\* $('add') .. $('ee'): onclick, then $('buttons').onclick
PressBinary(op) ==
    /\ appendBinary(op)
    /\ refreshDisplay(tokens', op)
    /\ scenario' = Advance(op)

\* $('neg'), $('reciprocal'), $('sqrt'): onclick, then $('buttons').onclick
PressUnary(op) ==
    /\ appendUnary(op)
    /\ refreshDisplay(tokens', op)
    /\ scenario' = Advance(op)

\* $('ans'): onclick, then $('buttons').onclick
PressAns ==
    /\ appendSymbol
    /\ refreshDisplay(tokens', "ans")
    /\ scenario' = Advance("ans")

\* $('open'): onclick, then $('buttons').onclick
PressOpen ==
    /\ appendOpen
    /\ refreshDisplay(tokens', "open")
    /\ scenario' = Advance("open")

\* $('close'): onclick, then $('buttons').onclick
PressClose ==
    /\ appendClose
    /\ refreshDisplay(tokens', "close")
    /\ scenario' = Advance("close")

\* $('backspace'): onclick, then $('buttons').onclick
PressBackspace ==
    /\ backspace
    /\ refreshDisplay(tokens', "backspace")
    /\ scenario' = Advance("backspace")

\* $('eq'): onclick, then $('buttons').onclick
PressEq ==
    /\ appendEq
    /\ refreshDisplay(tokens', "eq")
    /\ scenario' = Advance("eq")

\* $('ac'): onclick
PressAC ==
    /\ allClear
    /\ refreshDisplay(tokens', "ac")
    /\ scenario' = Advance("ac")

\* $('use-history-formula'): onclick with the item-th entry selected
UseHistoryFormula(item) ==
    /\ tokens' = cloneAll(history[item].formula)
    /\ refreshDisplay(tokens', "use-history-formula")
    /\ last' = Ran("use-history-formula", "", "", FALSE)
    /\ scenario' = Advance("use-history-formula")

\* $('delete-history'): onclick with the item-th entry selected
DeleteHistory(item) ==
    LET env == [historyIndices |-> historyIndices, history |-> history]
        d == deleteHistory(env, localStorage, item)
    IN  /\ historyIndices' = d.historyIndices
        /\ history' = d.history
        /\ localStorage' = d.storage
        /\ last' = Ran("delete-history", "", "", FALSE)
        /\ scenario' = Advance("delete-history")
        /\ UNCHANGED <<tokens, partialAns, displayResult>>

\* The page is loaded again: `let FORMULA = new Formula()`,
\* `let ENV = new Environment()`
\* When the constructor throws, the script ends there: ENV is never set and
\* no handler is wired (see Wired).
Reloaded(env) ==
    /\ tokens' = <<>>
    /\ historyIndices' = IF env.threw THEN <<>> ELSE env.historyIndices
    /\ history' = IF env.threw THEN <<>> ELSE env.history
    /\ partialAns' = Int_(0)
    /\ displayResult' = NoResult
    /\ last' = Ran(IF env.threw THEN "new threw" ELSE "new", "", "", FALSE)
Reload ==
    /\ Reloaded(Environment_constructor(localStorage))
    /\ scenario' = -1
    /\ UNCHANGED localStorage

\* A session of the page: every key of the pad, and the history sheet's
\* "use formula".  One key stands for each class of keys.
SessionDigits == {"2"}
SessionBinOps == {"add"}
SessionUnOps == {"neg"}

Next ==
    \/ \E digit \in SessionDigits : PressDigit(digit) /\ Within(MaxSize, MaxTotal)
    \/ \E op \in SessionBinOps : PressBinary(op) /\ Within(MaxSize, MaxTotal)
    \/ \E op \in SessionUnOps : PressUnary(op) /\ Within(MaxSize, MaxTotal)
    \/ PressAns /\ Within(MaxSize, MaxTotal)
    \/ PressOpen /\ Within(MaxSize, MaxTotal)
    \/ PressClose /\ Within(MaxSize, MaxTotal)
    \/ PressBackspace /\ Within(MaxSize, MaxTotal)
    \/ PressEq /\ Within(MaxSize, MaxTotal)
    \/ PressAC /\ Within(MaxSize, MaxTotal)
    \/ \E item \in 1..Len(history) : UseHistoryFormula(item) /\ Within(MaxSize, MaxTotal)

Spec == Init /\ [][Next]_vars

\* A session that chains answers: each calculation may start from the last
\* answer.
NextAnswers ==
    \/ \E digit \in SessionDigits : PressDigit(digit) /\ Within(MaxSize, MaxAnswers)
    \/ \E op \in SessionBinOps : PressBinary(op) /\ Within(MaxSize, MaxAnswers)
    \/ \E op \in SessionUnOps : PressUnary(op) /\ Within(MaxSize, MaxAnswers)
    \/ PressAns /\ Within(MaxSize, MaxAnswers)
    \/ PressEq /\ Within(MaxSize, MaxAnswers)
    \/ PressAC /\ Within(MaxSize, MaxAnswers)

SpecAnswers == Init /\ [][NextAnswers]_vars

\* A session that types sums of the digits 2 and 3.
ScriptDigits == {"2", "3"}

NextScript ==
    \/ \E digit \in ScriptDigits : PressDigit(digit) /\ Within(MaxSize, MaxScript)
    \/ PressBinary("add") /\ Within(MaxSize, MaxScript)
    \/ PressBackspace /\ Within(MaxSize, MaxScript)
    \/ PressEq /\ Within(MaxSize, MaxScript)
    \/ PressAC /\ Within(MaxSize, MaxScript)
    \/ \E item \in 1..Len(history) : UseHistoryFormula(item) /\ Within(MaxSize, MaxScript)

SpecScript == Init /\ [][NextScript]_vars

\* A session that types expressions over integers, parentheses and the
\* operators +, -, x, ^; the history stays empty.
ExprDigits == {"2", "3", "4"}
ExprBinOps == {"add", "sub", "mul", "pow"}

NextRPN ==
    \/ \E digit \in ExprDigits : PressDigit(digit) /\ Within(MaxExpr, MaxExpr)
    \/ \E op \in ExprBinOps : PressBinary(op) /\ Within(MaxExpr, MaxExpr)
    \/ PressOpen /\ Within(MaxExpr, MaxExpr)
    \/ PressClose /\ Within(MaxExpr, MaxExpr)

SpecRPN == Init /\ [][NextRPN]_vars

\* The Environment driven through its methods: ENV.saveAns as refreshDisplay
\* calls it, with a completed formula and its value, and ENV.deleteHistory
\* as the history sheet calls it.
\* Entries of even ID hold "2 =" and entries of odd ID hold "2 + 2 =", so
\* that neighbouring entries differ.
SavedFormula(id) ==
    IF id % 2 = 0
    THEN <<NumberToken("2"), EqToken>>
    ELSE <<NumberToken("2"), BinaryToken("add"), NumberToken("2"), EqToken>>
NextHistoryID ==
    IF Len(historyIndices) > 0 THEN Last(historyIndices) + 1 ELSE 0
\* The entries deleted: the first, the last and those of the IDs up to MaxDeleted
DeletedItems ==
    {i \in 1..Len(history) :
        i = 1 \/ i = Len(history) \/ historyIndices[i] <= MaxDeleted}

\* ENV.saveAns(FORMULA.tokens.map(t => t.clone()), ans)
SaveAns(formula) ==
    /\ Saved(saveAns([historyIndices |-> historyIndices, history |-> history],
                     localStorage, cloneAll(formula),
                     GroupToken_evaluate(history, partial(formula)).value))
    /\ last' = Ran("saveAns", "", "", FALSE)
    /\ UNCHANGED <<tokens, partialAns, displayResult, scenario>>

\* The step gives no entry an ID above MaxID
Capped(maxID) == Len(historyIndices') = 0 \/ Last(historyIndices') <= maxID

NextHistory ==
    \/ SaveAns(SavedFormula(NextHistoryID)) /\ Capped(MaxID)
    \/ \E item \in DeletedItems : DeleteHistory(item) /\ Capped(MaxID)

SpecHistory == Init /\ [][NextHistory]_vars

\* The page across loads, over a store that something other than this code
\* may write as well: an earlier or later version of the page, or the
\* browser's tools.
UnknownTag == "?"

\* The j-th token of the formula stored under id is written with a tag this
\* code does not know
ForeignWrite(id, j) ==
    /\ localStorage' = [localStorage EXCEPT !.hV[id].formula[j].tag = UnknownTag]
    /\ last' = Ran("foreign write", "", "", FALSE)
    /\ UNCHANGED <<tokens, historyIndices, history, partialAns, displayResult,
                   scenario>>

\* The script ran to its end: ENV is set and the handlers are wired
Wired == last.op # "new threw"

NextLoad ==
    \/ Wired /\ SaveAns(SavedFormula(NextHistoryID)) /\ Capped(MaxLoaded)
    \/ \E item \in 1..Len(history) :
           Wired /\ DeleteHistory(item) /\ Capped(MaxLoaded)
    \/ \E id \in DOMAIN localStorage.hV :
           \E j \in 1..Len(localStorage.hV[id].formula) : ForeignWrite(id, j)
    \/ Reload

SpecLoad == Init /\ [][NextLoad]_vars

\* ------------------------------------------------------ the tokens as objects
\* The records above are the tokens' fields.  Where it matters which object a
\* token is, the record carries one more field, id: tokens with the same id
\* are one object.  The operators above keep the id of a record they update
\* (an object changed in place) or pass on (a reference copied), and build a
\* record without an id where the code constructs a token with `new`.
HasId(t) == "id" \in DOMAIN t
Object(t, id, toks) ==
    [k |-> t.k, negative |-> t.negative, number |-> t.number, op |-> t.op,
     tokens |-> toks, id |-> id]

\* The ids of the tokens of an array at every depth, in order
RECURSIVE IdsOf(_)
IdsOf(toks) ==
    IF Len(toks) = 0 THEN <<>>
    ELSE (IF HasId(Head(toks)) THEN <<Head(toks).id>> ELSE <<>>)
         \o IdsOf(Head(toks).tokens) \o IdsOf(Tail(toks))
RECURSIVE HistoryIds(_)
HistoryIds(h) ==
    IF Len(h) = 0 THEN <<>> ELSE IdsOf(Head(h).formula) \o HistoryIds(Tail(h))

\* The tokens of an array at every depth
RECURSIVE Objects(_)
Objects(toks) ==
    IF Len(toks) = 0 THEN <<>>
    ELSE <<Head(toks)>> \o Objects(Head(toks).tokens) \o Objects(Tail(toks))

\* `new`: the tokens of toks that are newly constructed get the ids next,
\* next + 1, ..; gives the array and the first id not used
RECURSIVE New(_, _)
NewHead(t, id, inner, rest) ==
    [toks |-> <<Object(t, id, inner.toks)>> \o rest.toks, next |-> rest.next]
New(toks, next) ==
    IF Len(toks) = 0 THEN [toks |-> <<>>, next |-> next]
    ELSE LET t == Head(toks)
             id == IF HasId(t) THEN t.id ELSE next
             inner == New(t.tokens, IF HasId(t) THEN next ELSE next + 1)
             rest == New(Tail(toks), inner.next)
         IN  NewHead(t, id, inner, rest)

\* The fields of the tokens of an array, whichever objects they are
RECURSIVE Fields(_)
Fields(toks) ==
    [i \in 1..Len(toks) |->
        Token(toks[i].k, toks[i].negative, toks[i].number, toks[i].op,
              Fields(toks[i].tokens))]
HistoryFields(h) ==
    [i \in 1..Len(h) |-> [formula |-> Fields(h[i].formula), ans |-> h[i].ans]]

\* What a reference to the object t reads once the objects objs have the
\* fields given: t's fields are those of the object of objs with its id
Deref(t, objs) ==
    IF HasId(t) /\ \E j \in 1..Len(objs) : HasId(objs[j]) /\ objs[j].id = t.id
    THEN LET o == objs[CHOOSE j \in 1..Len(objs) : HasId(objs[j]) /\ objs[j].id = t.id]
         IN  [t EXCEPT !.negative = o.negative, !.number = o.number, !.op = o.op]
    ELSE t
RECURSIVE Seen(_, _)
Seen(toks, objs) ==
    [i \in 1..Len(toks) |->
        [Deref(toks[i], objs) EXCEPT !.tokens = Seen(toks[i].tokens, objs)]]
HistorySeen(h, objs) ==
    [i \in 1..Len(h) |-> [formula |-> Seen(h[i].formula, objs), ans |-> h[i].ans]]

\* The objects numbered in the order in which order first names them
Rank(order, id) ==
    CHOOSE i \in 1..Len(order) :
        order[i] = id /\ \A j \in 1..(i - 1) : order[j] # id
RECURSIVE Renumbered(_, _)
Renumbered(toks, order) ==
    [i \in 1..Len(toks) |->
        Object(toks[i], Rank(order, toks[i].id), Renumbered(toks[i].tokens, order))]

\* The first id no object has
NextId == 1 + Len(IdsOf(tokens)) + Len(HistoryIds(history))

\* FORMULA.tokens and ENV.history once a handler has left the live array
\* live and the entries hist
Settled(live, hist, order) ==
    /\ tokens' = Renumbered(live, order)
    /\ history' =
        [i \in 1..Len(hist) |->
            [formula |-> Renumbered(hist[i].formula, order), ans |-> hist[i].ans]]
Left(live, hist) == Settled(live, hist, IdsOf(live) \o HistoryIds(hist))

\* ... once ENV.saveAns has run and given saved, the tokens it was handed
\* that are newly constructed getting the ids from next on
SavedObjects(live, saved, next) ==
    /\ historyIndices' = saved.historyIndices
    /\ localStorage' = saved.storage
    /\ Left(live, [saved.history EXCEPT
                     ![Len(saved.history)].formula = New(@, next).toks])

\* refreshDisplay(e) as Refreshed, over objects: live is the formula the
\* button's handler left and hist is ENV.history as it then reads
RefreshedObjects(live, target, e, hist) ==
    IF e.threw
    THEN /\ UNCHANGED <<historyIndices, partialAns, localStorage, displayResult>>
         /\ Left(live, hist)
    ELSE /\ partialAns' = e.value
         /\ displayResult' = e.value
         /\ IF isComplete(live) /\ target = "eq"
            THEN SavedObjects(live,
                    saveAns([historyIndices |-> historyIndices, history |-> hist],
                            localStorage, cloneAll(live), e.value),
                    NextId + Len(IdsOf(live)))
            ELSE /\ UNCHANGED <<historyIndices, localStorage>>
                 /\ Left(live, hist)

\* A button's handler that leaves FORMULA.tokens = toks, then
\* $('buttons').onclick
Handled(toks, target) ==
    /\ RefreshedObjects(New(toks, NextId).toks, target,
                        GroupToken_evaluate(history, partial(toks)),
                        HistorySeen(history, Objects(toks)))
    /\ scenario' = Advance(target)
Keyed(op, arg, r, target) ==
    /\ Handled(r.tokens, target)
    /\ last' = Ran(op, arg, r.result, FALSE)

\* The handlers of the page over objects
ObjectsDigit(digit) ==
    Keyed("appendDigit", digit, Formula_appendDigit(tokens, digit), "n")
ObjectsBinary(op) == Keyed("appendBinary", op, Formula_appendBinary(tokens, op), op)
ObjectsUnary(op) == Keyed("appendUnary", op, Formula_appendUnary(tokens, op), op)
ObjectsOpen == Keyed("appendOpen", "", Formula_appendOpen(tokens), "open")
ObjectsClose == Keyed("appendClose", "", Formula_appendClose(tokens), "close")
ObjectsEq == Keyed("appendEq", "", Formula_appendEq(tokens), "eq")
ObjectsBackspace ==
    /\ Handled(Formula_backspace(tokens), "backspace")
    /\ last' = Ran("backspace", Removed, "", FALSE)
ObjectsAC ==
    /\ Handled(<<>>, "ac")
    /\ last' = Ran("ac", "", "", FALSE)
ObjectsUseHistoryFormula(item) ==
    /\ Handled(cloneAll(history[item].formula), "use-history-formula")
    /\ last' = Ran("use-history-formula", "", "", FALSE)

\* A session of the page with its tokens as objects
ObjectsBinOps == {"add", "mul"}

NextObjects ==
    \/ \E digit \in SessionDigits : ObjectsDigit(digit) /\ Within(MaxSize, MaxTotal)
    \/ \E op \in ObjectsBinOps : ObjectsBinary(op) /\ Within(MaxSize, MaxTotal)
    \/ \E op \in SessionUnOps : ObjectsUnary(op) /\ Within(MaxSize, MaxTotal)
    \/ ObjectsOpen /\ Within(MaxSize, MaxTotal)
    \/ ObjectsClose /\ Within(MaxSize, MaxTotal)
    \/ ObjectsBackspace /\ Within(MaxSize, MaxTotal)
    \/ ObjectsEq /\ Within(MaxSize, MaxTotal)
    \/ ObjectsAC /\ Within(MaxSize, MaxTotal)
    \/ \E item \in 1..Len(history) :
           ObjectsUseHistoryFormula(item) /\ Within(MaxSize, MaxTotal)

SpecObjects == Init /\ [][NextObjects]_vars

\* --------------------------------------------------------------- properties
\* The append methods of Formula
Appends ==
    {"appendDigit", "appendBinary", "appendUnary", "appendSymbol", "appendOpen"}

\* What the append method op, called with arg, makes of the token array toks
Applied(op, arg, toks) ==
    CASE op = "appendDigit" -> Formula_appendDigit(toks, arg)
      [] op = "appendBinary" -> Formula_appendBinary(toks, arg)
      [] op = "appendUnary" -> Formula_appendUnary(toks, arg)
      [] op = "appendSymbol" -> Formula_appendSymbol(toks, arg)
      [] op = "appendOpen" -> Formula_appendOpen(toks)

\* The Equals markers of a token array, at every depth
RECURSIVE EqCount(_)
EqCount(toks) ==
    IF Len(toks) = 0 THEN 0
    ELSE (CASE Head(toks).k = "e" -> 1
            [] Head(toks).k = "g" -> EqCount(Head(toks).tokens)
            [] OTHER -> 0) + EqCount(Tail(toks))

\* The Open markers of a token array (top level)
HasOpen(toks) == \E i \in 1..Len(toks) : toks[i].k = "o"
OpenCount(toks) == Cardinality({i \in 1..Len(toks) : toks[i].k = "o"})
RightmostOpen(toks) ==
    CHOOSE i \in 1..Len(toks) :
        toks[i].k = "o" /\ \A j \in (i + 1)..Len(toks) : toks[j].k # "o"

\* toks with its rightmost Open marker and all that follows it made one Group
CloseRightmost(toks) ==
    Append(SubSeq(toks, 1, RightmostOpen(toks) - 1),
           GroupToken(SubSeq(toks, RightmostOpen(toks) + 1, Len(toks))))
\* toks with every Open marker closed, the rightmost first
RECURSIVE AllClosed(_)
AllClosed(toks) ==
    IF HasOpen(toks) THEN AllClosed(CloseRightmost(toks)) ELSE toks

\* C1: an append (appendDigit, appendBinary, appendUnary, appendSymbol,
\* appendOpen) that does not fail on a formula whose last token is the Equals
\* marker leaves exactly the token array the same append makes of an empty
\* formula: no token of the completed formula survives.
C1_AppendOnComplete ==
    [][(isComplete(tokens) /\ last'.op \in Appends /\ last'.result # "failed")
       => /\ tokens' = Applied(last'.op, last'.arg, <<>>).tokens
          /\ EqCount(tokens') = 0]_vars
\* a digit has been appended to a complete formula
C1_Witness ==
    /\ last.op = "appendDigit"
    /\ last.complete
    /\ last.result # "failed"
    /\ Len(tokens) = 1

\* C2: in every state the session reaches from the empty formula (by the
\* appends, appendClose, appendEq, backspace, all-clear and loading a formula
\* from the history) the token array holds at most one Equals marker, and
\* one it holds is its last token.
C2_EqOnlyLast ==
    /\ EqCount(tokens) <= 1
    /\ \A i \in 1..Len(tokens) : tokens[i].k = "e" => i = Len(tokens)
    /\ \A i \in 1..Len(tokens) : tokens[i].k = "g" => EqCount(tokens[i].tokens) = 0
\* a complete formula has been loaded from the history
C2_Witness ==
    /\ last.op = "use-history-formula"
    /\ isComplete(tokens)
    /\ Len(tokens) >= 3

\* C3: when the last token's directive to an append (or to appendClose, or
\* to the probe of appendEq) is `failed`, the token array is left as it was,
\* contents included; a failed appendClose on a complete formula leaves it
\* complete.
C3_FailedUnchanged ==
    [][(last'.op \in Appends \cup {"appendClose", "appendEq"}
            /\ last'.result = "failed")
       => tokens' = tokens]_vars
\* appendClose has failed on a complete formula, which is still complete
C3_Witness ==
    /\ last.op = "appendClose"
    /\ last.result = "failed"
    /\ last.complete
    /\ isComplete(tokens)

\* C4: no reachable formula breaks a structural invariant: appendClose meets
\* no directive of the last token but `failed` and `createAfter` (it never
\* throws), and evaluating partial() never evaluates an Open or Equals
\* marker, at any Group depth, nor reduces a binary or unary operator with an
\* operand missing.
C4_NoStructuralFailure ==
    /\ last.op # "appendClose threw"
    /\ Formula_appendClose(tokens).result \in {"failed", "createAfter"}
    /\ ~Formula_appendClose(tokens).threw
    /\ ~GroupToken_evaluate(history, partial(tokens)).threw
    /\ ~GroupToken_evaluate(history, partial(tokens)).missing
\* the preview window lies behind an operator and an Open marker, after a
\* Group
C4_Witness ==
    /\ Len(tokens) = 3
    /\ tokens[1].k = "g"
    /\ tokens[2].k = "b"
    /\ tokens[3].k = "o"
    /\ partial(tokens) = <<tokens[1]>>

\* C5: appendClose, the last token answering `createAfter` and the array
\* holding an Open marker, puts one Group in place of the rightmost Open
\* marker and all that follows it; the Group holds the tokens that followed
\* that Open marker, in order; the tokens before it are unchanged; there is
\* one Open marker fewer; and the call returns true.
C5_CloseGroups ==
    [][(last'.op = "appendClose" /\ last'.result = "createAfter"
            /\ HasOpen(tokens))
       => /\ Len(tokens') = RightmostOpen(tokens)
          /\ SubSeq(tokens', 1, RightmostOpen(tokens) - 1)
                = SubSeq(tokens, 1, RightmostOpen(tokens) - 1)
          /\ Last(tokens')
                = GroupToken(SubSeq(tokens, RightmostOpen(tokens) + 1, Len(tokens)))
          /\ OpenCount(tokens') = OpenCount(tokens) - 1
          /\ last'.ret]_vars
\* the inner of two open parentheses has been closed
C5_Witness ==
    /\ last.op = "appendClose"
    /\ last.ret
    /\ Len(tokens) >= 2
    /\ Last(tokens).k = "g"
    /\ OpenCount(tokens) = 1

\* C6: appendClose on a formula without an Open marker (the empty formula
\* too) returns false and leaves the token array unchanged, whatever the
\* last token.
C6_CloseWithoutOpen ==
    [][(last'.op \in {"appendClose", "appendClose threw"} /\ ~HasOpen(tokens))
       => /\ last'.op = "appendClose"
          /\ ~last'.ret
          /\ tokens' = tokens]_vars
\* appendClose has returned false on a formula whose last token answered
\* `createAfter`
C6_Witness ==
    /\ last.op = "appendClose"
    /\ last.result = "createAfter"
    /\ ~last.ret
    /\ ~HasOpen(tokens)
    /\ Len(tokens) > 0

\* C7: appendClose and backspace are inverse around a Group: in a reachable
\* state whose last token is a Group, backspace and then appendClose returns
\* true and gives back the same token array; and after an appendClose that
\* returned true, backspace gives back the array before the close.
C7_CloseBackspaceInverse ==
    /\ []((Len(tokens) > 0 /\ Last(tokens).k = "g")
            => /\ Formula_appendClose(Formula_backspace(tokens)).ret
               /\ Formula_appendClose(Formula_backspace(tokens)).tokens = tokens)
    /\ [][(last'.op = "appendClose" /\ last'.ret)
            => Formula_backspace(tokens') = tokens]_vars
\* a Group with something before it has just been closed
C7_Witness ==
    /\ last.op = "appendClose"
    /\ last.ret
    /\ Len(tokens) = 3
    /\ Last(tokens).k = "g"
    /\ Len(Last(tokens).tokens) >= 2

\* C8: appendEq succeeds when the last token is a Number, Group, Symbol or
\* Unary operator (and changes nothing otherwise); it then closes every
\* Open marker, the rightmost first, and appends one Equals marker, so that
\* isComplete() holds right after; and no reachable complete formula holds
\* an Open marker at its top level.
C8_EqClosesAll ==
    /\ [](isComplete(tokens) => ~HasOpen(tokens))
    /\ [][(last'.op = "appendEq")
            => IF Len(tokens) > 0 /\ Last(tokens).k \in {"n", "g", "s", "u"}
               THEN /\ last'.result = "createAfter"
                    /\ tokens' = Append(AllClosed(tokens), EqToken)
                    /\ EqCount(tokens') = 1
                    /\ ~HasOpen(tokens')
                    /\ isComplete(tokens')
               ELSE tokens' = tokens]_vars
\* appendEq has closed two nested parentheses around a number
C8_Witness ==
    /\ last.op = "appendEq"
    /\ isComplete(tokens)
    /\ Len(tokens) = 2
    /\ tokens[1].k = "g"
    /\ Len(tokens[1].tokens) = 1
    /\ tokens[1].tokens[1].k = "g"

\* The formula 2 + 3 =
TwoPlusThree ==
    <<NumberToken("2"), BinaryToken("add"), NumberToken("3"), EqToken>>

\* C9: from the empty formula and the empty history, the keys 2, +, 3, =
\* leave the formula complete with the tokens [2, +, 3, =], show the result
\* 5, and leave in the history exactly one entry, of formula [2, +, 3, =] and
\* answer 5.
C9_TwoPlusThree ==
    (scenario = Len(Script))
        => /\ tokens = TwoPlusThree
           /\ isComplete(tokens)
           /\ displayResult = Int_(5)
           /\ history = <<[formula |-> TwoPlusThree, ans |-> Int_(5)]>>
\* the four keys have been pressed
C9_Witness ==
    /\ scenario = Len(Script)
    /\ last.op = "appendEq"
    /\ Len(history) = 1

\* C10: appendBinary(op) and appendUnary(op) make of the empty formula, and
\* of a complete formula, exactly the two tokens [Ans, op].
C10_OperatorInsertsAns ==
    [][(last'.op \in {"appendBinary", "appendUnary"}
            /\ (Len(tokens) = 0 \/ isComplete(tokens)))
       => tokens' = <<SymbolToken("ans"),
                      IF last'.op = "appendBinary"
                      THEN BinaryToken(last'.arg)
                      ELSE UnaryToken(last'.arg)>>]_vars
\* a unary operator has been appended to a complete formula
C10_Witness ==
    /\ last.op = "appendUnary"
    /\ last.complete
    /\ Len(tokens) = 2
    /\ tokens[2].k = "u"

\* An expression over integer Numbers, Groups of such expressions and the
\* operators add, sub, mul, pow: operands and operators in turn
RECURSIVE Plain(_)
Plain(toks) ==
    /\ Len(toks) % 2 = 1
    /\ \A i \in 1..Len(toks) :
        IF i % 2 = 1
        THEN \/ toks[i].k = "n" /\ ~HasDot(toks[i].number)
             \/ toks[i].k = "g" /\ Plain(toks[i].tokens)
        ELSE toks[i].k = "b" /\ toks[i].op \in {"add", "sub", "mul", "pow"}

\* Standard precedence: add and sub bind least, then mul, then pow
Level(op) ==
    CASE op \in {"add", "sub"} -> 1
      [] op = "mul" -> 2
      [] op = "pow" -> 3
\* The operator an expression splits at when operators of equal precedence
\* associate left to right: the last of those that bind least
SplitAt(toks) ==
    CHOOSE i \in 1..Len(toks) :
        /\ i % 2 = 0
        /\ \A j \in 1..Len(toks) : j % 2 = 0 =>
            \/ Level(toks[j].op) > Level(toks[i].op)
            \/ Level(toks[j].op) = Level(toks[i].op) /\ j <= i
\* The value of a Plain expression, by its syntax tree
RECURSIVE Value(_)
Value(toks) ==
    IF Len(toks) = 1
    THEN IF toks[1].k = "g" THEN Value(toks[1].tokens)
         ELSE parseFloat(toks[1].number)
    ELSE LET i == SplitAt(toks)
             left == Value(SubSeq(toks, 1, i - 1))
             right == Value(SubSeq(toks, i + 1, Len(toks)))
         IN  CASE toks[i].op = "add" -> NumAdd(left, right)
               [] toks[i].op = "sub" -> NumSub(left, right)
               [] toks[i].op = "mul" -> NumMul(left, right)
               [] toks[i].op = "pow" -> NumPow(left, right)

\* The expression a b c with operators p between a, b and q between b, c
Expr3(a, p, b, q, c) ==
    <<NumberToken(a), BinaryToken(p), NumberToken(b), BinaryToken(q), NumberToken(c)>>

\* C11: for a well-formed expression over integer Numbers, Groups and the
\* operators add, sub, mul, pow, toRPN and the reduction give its value
\* under standard precedence with operators of equal precedence, pow
\* included, associated left to right: 2 + 3 x 4 gives 14, (2 + 3) x 4 gives
\* 20, 2 ^ 3 ^ 2 gives 64.  The display shows that value once the expression
\* is closed into a Group.
C11_RPNValue ==
    /\ Plain(tokens)
        => GroupToken_evaluate(history, tokens).value = Value(tokens)
    /\ (Len(tokens) > 0 /\ Last(tokens).k = "g" /\ Plain(Last(tokens).tokens))
        => displayResult = Value(Last(tokens).tokens)
    /\ tokens = Expr3("2", "add", "3", "mul", "4")
        => GroupToken_evaluate(history, tokens).value = Int_(14)
    /\ tokens = <<GroupToken(<<NumberToken("2"), BinaryToken("add"),
                               NumberToken("3")>>),
                  BinaryToken("mul"), NumberToken("4")>>
        => GroupToken_evaluate(history, tokens).value = Int_(20)
    /\ tokens = Expr3("2", "pow", "3", "pow", "2")
        => GroupToken_evaluate(history, tokens).value = Int_(64)
    /\ tokens = <<GroupToken(Expr3("2", "pow", "3", "pow", "2"))>>
        => displayResult = Int_(64)
\* (2 ^ 3 ^ 2) has been typed and closed
C11_Witness ==
    /\ tokens = <<GroupToken(Expr3("2", "pow", "3", "pow", "2"))>>
    /\ last.op = "appendClose"
    /\ displayResult = Int_(64)

\* The positions before the last token whose precedence is lower than the
\* last token's
LowerBefore(toks) ==
    {i \in 1..(Len(toks) - 1) : precedence(toks[i]) < precedence(Last(toks))}
\* Where the window of a formula ending in a Binary operator starts: just
\* after the nearest such position, or at the first token
WindowStart(toks) ==
    IF LowerBefore(toks) = {} THEN 1
    ELSE 1 + CHOOSE i \in LowerBefore(toks) : \A j \in LowerBefore(toks) : j <= i

\* C12: when the last token of a reachable formula is a Binary operator of
\* precedence p, partial() is the longest run of tokens right before that
\* operator with precedences all >= p: the operator is left out, and the
\* window starts just after the nearest earlier token of precedence lower
\* than p (a Binary operator or an Open marker), or at the first token.
C12_BinaryWindow ==
    (Len(tokens) > 0 /\ Last(tokens).k = "b")
        => /\ partial(tokens)
                = SubSeq(tokens, WindowStart(tokens), Len(tokens) - 1)
           /\ Len(partial(tokens)) > 0
           /\ \A i \in 1..Len(partial(tokens)) :
                precedence(partial(tokens)[i]) >= precedence(Last(tokens))
\* 2 + (2 x: the window stops at the Open marker
C12_Witness ==
    /\ Len(tokens) = 5
    /\ tokens[2].k = "b"
    /\ tokens[3].k = "o"
    /\ tokens[5].k = "b"
    /\ tokens[5].op = "mul"
    /\ partial(tokens) = <<tokens[4]>>

\* C13: once a formula is saved to history, nothing done to the live formula
\* changes a stored entry.  With the tokens as objects: every step of a
\* session (appending, backspace, clear, "=", loading an entry) leaves the
\* fields of every token of every entry already stored as they were, and the
\* live formula and the entries hold no Number, operator or Group object in
\* common, nor do two entries.
Stateful(toks) ==
    {Objects(toks)[j].id : j \in {i \in 1..Len(Objects(toks)) :
                                     ~(Objects(toks)[i].k \in {"o", "e"})}}
C13_NoSharing ==
    /\ \A i \in 1..Len(history) :
          Stateful(tokens) \cap Stateful(history[i].formula) = {}
    /\ \A i, j \in 1..Len(history) :
          i # j => Stateful(history[i].formula)
                      \cap Stateful(history[j].formula) = {}
C13_HistoryKept ==
    /\ []C13_NoSharing
    /\ [][/\ Len(history') >= Len(history)
          /\ SubSeq(HistoryFields(history'), 1, Len(history))
                = HistoryFields(history)]_vars
C13_Witness ==
    /\ Len(history) = 1
    /\ Fields(history[1].formula) = <<NumberToken("2"), EqToken>>
    /\ Fields(tokens) = <<[NumberToken("2") EXCEPT !.negative = TRUE]>>
    /\ last.op = "appendUnary"

\* C14: with MAX_HISTORY_COUNT (64) entries held, saveAns removes the oldest
\* entry, the one with the lowest ID, together with its stored value record,
\* and then adds the new one; and from an empty store, after whatever saveAns
\* and deleteHistory calls, the history never holds more than 64 entries.
LowestID == CHOOSE id \in DOMAIN localStorage.hV : \A other \in DOMAIN localStorage.hV : id <= other
C14_EvictsOldest ==
    /\ [](Len(history) <= MAX_HISTORY_COUNT /\ Len(historyIndices) <= MAX_HISTORY_COUNT)
    /\ [][(Len(history) = MAX_HISTORY_COUNT /\ last'.op = "saveAns")
            => /\ historyIndices[1] = LowestID
               /\ Len(history') = MAX_HISTORY_COUNT
               /\ Front(historyIndices') = Tail(historyIndices)
               /\ Front(history') = Tail(history)
               /\ Last(historyIndices') = Last(historyIndices) + 1
               /\ DOMAIN localStorage'.hV
                    = (DOMAIN localStorage.hV \ {LowestID}) \cup {Last(historyIndices')}
               /\ \A id \in DOMAIN localStorage.hV \ {LowestID} :
                     localStorage'.hV[id] = localStorage.hV[id]
               /\ localStorage'.hI.value = historyIndices']_vars
C14_Witness ==
    /\ last.op = "saveAns"
    /\ Len(history) = MAX_HISTORY_COUNT
    /\ historyIndices[1] = 1
    /\ historyIndices[MAX_HISTORY_COUNT] = MAX_HISTORY_COUNT
    /\ ~(0 \in DOMAIN localStorage.hV)

\* C15: from an empty store, after whatever saveAns and deleteHistory calls,
\* historyIndices is strictly increasing; history and historyIndices have
\* the same length and the i-th entry is the one stored under the i-th ID;
\* the persisted index list is historyIndices; and the stored value records
\* are those of the IDs of historyIndices, one each.  A load of the store
\* then gives the same history back.
PersistedIndices ==
    IF localStorage.hI.present THEN localStorage.hI.value ELSE <<>>
C15_StoreConsistent ==
    /\ \A i \in 1..(Len(historyIndices) - 1) : historyIndices[i] < historyIndices[i + 1]
    /\ Len(history) = Len(historyIndices)
    /\ PersistedIndices = historyIndices
    /\ DOMAIN localStorage.hV = {historyIndices[i] : i \in 1..Len(historyIndices)}
    /\ \A i \in 1..Len(historyIndices) :
          localStorage.hV[historyIndices[i]]
            = [formula |-> [j \in 1..Len(history[i].formula) |->
                               serializeToken(history[i].formula[j])],
               ans |-> history[i].ans]
    /\ Environment_constructor(localStorage)
         = [threw |-> FALSE, historyIndices |-> historyIndices, history |-> history]
C15_Witness ==
    /\ last.op = "delete-history"
    /\ Len(history) = MAX_HISTORY_COUNT - 1
    /\ historyIndices[1] = 1
    /\ historyIndices[3] = 4
    /\ history[1].formula # history[2].formula

\* C16: when a persisted entry holds a token of an unrecognized tag, the load
\* (the Environment constructor) does not fail, drops that entry only, and
\* loads every other persisted entry with its ID, in order.
Recognized(id) ==
    /\ id \in DOMAIN localStorage.hV
    /\ ~loadEntry(localStorage.hV[id]).threw
C16_LoadDropsEntry ==
    last.op \in {"new", "new threw"}
        => /\ last.op = "new"
           /\ historyIndices = SelectSeq(PersistedIndices, Recognized)
           /\ Len(history) = Len(historyIndices)
           /\ \A i \in 1..Len(historyIndices) :
                 history[i] = loadEntry(localStorage.hV[historyIndices[i]]).entry

\* C17: for every token array the editing operations reach, deserializing
\* the serialization of each token gives the same kinds and payloads (sign
\* and digit-string, operator, Group contents at every depth), hence the
\* same value under the same history and the same rendering; and clone()
\* gives the same as that round trip.
RoundTrip(toks) ==
    [i \in 1..Len(toks) |-> deserializeToken(serializeToken(toks[i]))]
Decoded(toks) == [i \in 1..Len(toks) |-> RoundTrip(toks)[i].token]
SomeHistories == {<<>>, <<[formula |-> <<SymbolToken("ans"), EqToken>>, ans |-> Int_(7)]>>}
C17_RoundTrip ==
    /\ \A i \in 1..Len(tokens) : ~RoundTrip(tokens)[i].threw
    /\ Decoded(tokens) = tokens
    /\ cloneAll(tokens) = Decoded(tokens)
    /\ renderInto(Decoded(tokens)) = renderInto(tokens)
    /\ renderInto(cloneAll(tokens)) = renderInto(tokens)
    /\ \A env \in SomeHistories :
          /\ GroupToken_evaluate(env, partial(Decoded(tokens)))
                = GroupToken_evaluate(env, partial(tokens))
          /\ GroupToken_evaluate(env, partial(cloneAll(tokens)))
                = GroupToken_evaluate(env, partial(tokens))
C17_Witness ==
    /\ Len(tokens) = 1
    /\ tokens[1].k = "g"
    /\ Len(tokens[1].tokens) = 1
    /\ tokens[1].tokens[1].k = "g"
    /\ tokens[1].tokens[1].tokens = <<[NumberToken("2") EXCEPT !.negative = TRUE]>>
    /\ last.op = "appendClose"

\* C18: the digit-string of every Number token, at every depth, is not empty,
\* holds at most one "." and has no leading "0" directly followed by a digit;
\* appending "." to a Number that holds one is rejected and changes nothing;
\* and appending another digit to a Number whose digit-string is exactly "0"
\* replaces the "0".
WellFormed(number) ==
    /\ Len(number) > 0
    /\ Cardinality({i \in 1..Len(number) : number[i] = "."}) <= 1
    /\ ~(Len(number) >= 2 /\ number[1] = "0" /\ number[2] # ".")
NumbersWellFormed(toks) ==
    \A j \in 1..Len(Objects(toks)) :
        Objects(toks)[j].k = "n" => WellFormed(Objects(toks)[j].number)
C18_NumberShape ==
    /\ []NumbersWellFormed(tokens)
    /\ [][(Len(tokens) > 0 /\ Last(tokens).k = "n" /\ last'.op = "appendDigit")
            => /\ (last'.arg = "." /\ HasDot(Last(tokens).number))
                    => (tokens' = tokens /\ last'.result = "failed")
               /\ (last'.arg # "." /\ Last(tokens).number = <<"0">>)
                    => tokens' = [tokens EXCEPT ![Len(tokens)].number = <<last'.arg>>]
               /\ ~(last'.arg = "." /\ HasDot(Last(tokens).number))
                    => last'.result = "replaced"]_vars
C18_Witness ==
    /\ last.op = "appendDigit"
    /\ last.arg = "2"
    /\ last.result = "replaced"
    /\ Len(tokens) = 3
    /\ tokens[2].k = "b"
    /\ tokens[3] = NumberToken("2")
    /\ tokens[1].k = "n"
    /\ tokens[1].number = <<"0", ".", "2">>

\* C19: backspace with a Number last: a Number of one character is removed,
\* the array getting one shorter; a Number of more characters stays last,
\* its digit-string without its final character and its sign as it was; and
\* the tokens before it stay as they were.
C19_BackspaceNumber ==
    [][(Len(tokens) > 0 /\ Last(tokens).k = "n" /\ last'.op = "backspace")
        => IF Len(Last(tokens).number) = 1
           THEN tokens' = Front(tokens)
           ELSE /\ Len(tokens') = Len(tokens)
                /\ Front(tokens') = Front(tokens)
                /\ Last(tokens').k = "n"
                /\ Last(tokens').number = Front(Last(tokens).number)
                /\ Last(tokens').negative = Last(tokens).negative]_vars
C19_Witness ==
    /\ last.op = "backspace"
    /\ last.arg = "n"
    /\ Len(tokens) = 3
    /\ tokens[2].k = "b"
    /\ tokens[3].k = "n"
    /\ tokens[3].negative
    /\ tokens[3].number = <<"2">>

\* The appends that are not digits nor the unary negate, made with a Number
\* last, and the token each of them brings
AfterNumber ==
    /\ Len(tokens) > 0
    /\ Last(tokens).k = "n"
    /\ last'.op \in {"appendBinary", "appendUnary", "appendSymbol", "appendOpen",
                     "appendClose"}
    /\ ~(last'.op = "appendUnary" /\ last'.arg = "neg")
Brought ==
    CASE last'.op = "appendBinary" -> BinaryToken(last'.arg)
      [] last'.op = "appendUnary" -> UnaryToken(last'.arg)
      [] last'.op = "appendSymbol" -> SymbolToken(last'.arg)
      [] last'.op = "appendOpen" -> OpenToken
\* The directive is createAfter and is carried out: the new token follows
\* the Number, and appendClose closes the rightmost Open marker, if there is
\* one, with the Number the last token of the Group
PlacedAfter ==
    /\ last'.result = "createAfter"
    /\ IF last'.op = "appendClose"
       THEN tokens' = IF HasOpen(tokens) THEN CloseRightmost(tokens) ELSE tokens
       ELSE tokens' = Append(tokens, Brought)

\* C20 as stated: with a Number last, each of appendBinary, appendUnary
\* (reciprocal, sqrt), appendSymbol, appendOpen and appendClose returns
\* createAfter: the Number stays as it is, the new token after it.
C20_AllCreateAfter == [][AfterNumber => PlacedAfter]_vars

\* C20 as amended: with a Number last, appendBinary, appendUnary (reciprocal,
\* sqrt) and appendClose return createAfter, the Number staying as it is and
\* the new token following it; appendSymbol returns deleteAndCreate and the
\* Symbol takes the Number's place; appendOpen returns createBefore and the
\* Open marker goes right before the Number, which stays as it is.
C20_NumberAppends ==
    [][AfterNumber
        => CASE last'.op = "appendSymbol" ->
                    /\ last'.result = "deleteAndCreate"
                    /\ tokens' = Append(Front(tokens), SymbolToken("ans"))
             [] last'.op = "appendOpen" ->
                    /\ last'.result = "createBefore"
                    /\ tokens' = Front(tokens) \o <<OpenToken, Last(tokens)>>
             [] OTHER -> PlacedAfter]_vars
C20_Witness ==
    /\ last.op = "appendOpen"
    /\ last.result = "createBefore"
    /\ tokens = <<NumberToken("2"), BinaryToken("add"), OpenToken,
                  [NumberToken("2") EXCEPT !.negative = TRUE]>>

\* C21: appendBinary(op) with a Binary operator last sets that token's
\* operator to op in place, the array otherwise as it was; so an appendBinary
\* that does not fail leaves the array ending in exactly one Binary token, of
\* the operator given; and no formula reached has two Binary tokens next to
\* each other, at any depth.
RECURSIVE NoAdjacentBinary(_)
NoAdjacentBinary(toks) ==
    /\ \A i \in 1..(Len(toks) - 1) : ~(toks[i].k = "b" /\ toks[i + 1].k = "b")
    /\ \A i \in 1..Len(toks) : toks[i].k = "g" => NoAdjacentBinary(toks[i].tokens)
C21_BinaryReplaced ==
    /\ []NoAdjacentBinary(tokens)
    /\ [][(last'.op = "appendBinary")
            => /\ (Len(tokens) > 0 /\ Last(tokens).k = "b")
                    => /\ last'.result = "replaced"
                       /\ tokens' = [tokens EXCEPT ![Len(tokens)].op = last'.arg]
               /\ (last'.result # "failed")
                    => /\ Len(tokens') >= 2
                       /\ Last(tokens') = BinaryToken(last'.arg)
                       /\ tokens'[Len(tokens') - 1].k # "b"]_vars
C21_Witness ==
    /\ last.op = "appendBinary"
    /\ last.result = "replaced"
    /\ last.arg = "mul"
    /\ Len(tokens) = 4
    /\ tokens[1].k = "o"
    /\ tokens[2] = NumberToken("2")
    /\ tokens[3].k = "u"
    /\ tokens[4] = BinaryToken("mul")

\* The array after appendUnary(op) twice
Toggles == {"neg", "reciprocal"}
Twice(toks, op) == Formula_appendUnary(Formula_appendUnary(toks, op).tokens, op).tokens

\* C22 as stated, its second part: two appendUnary of neg, or of reciprocal,
\* one after the other give back the array there was before the first.
C22_TwiceReturns == \A op \in Toggles : Twice(tokens, op) = tokens

\* C22 as amended: appendUnary of neg or reciprocal with a Unary token of the
\* same operator last removes that token and adds nothing, so two such
\* appendUnary one after the other, on a formula that is neither empty nor
\* complete, give back the array there was before the first (on an empty or
\* complete formula the first puts the last-answer Symbol and the operator
\* and the second removes the operator only); appendUnary of sqrt with a Unary
\* sqrt last puts a second sqrt after it; and appendUnary of neg with a Number
\* last flips the Number's sign and nothing else, twice giving back the array
\* there was.
C22_RepeatedUnary ==
  /\ []((Len(tokens) > 0 /\ ~isComplete(tokens)) => C22_TwiceReturns)
  /\ []((Len(tokens) = 0 \/ isComplete(tokens))
            => \A op \in Toggles : Twice(tokens, op) = <<SymbolToken("ans")>>)
  /\
    [][(last'.op = "appendUnary" /\ Len(tokens) > 0)
        => /\ (Last(tokens).k = "u" /\ Last(tokens).op = last'.arg
                    /\ last'.arg \in Toggles)
                => /\ last'.result = "backspace"
                   /\ tokens' = Front(tokens)
           /\ (last'.arg \in Toggles /\ last'.result = "createAfter")
                => /\ tokens' = Append(tokens, UnaryToken(last'.arg))
                   /\ Formula_appendUnary(tokens', last'.arg).tokens = tokens
           /\ (Last(tokens).k = "u" /\ Last(tokens).op = "sqrt" /\ last'.arg = "sqrt")
                => tokens' = Append(tokens, UnaryToken("sqrt"))
           /\ (Last(tokens).k = "n" /\ last'.arg = "neg")
                => /\ tokens' = [tokens EXCEPT ![Len(tokens)].negative =
                                                    ~Last(tokens).negative]
                   /\ Formula_appendUnary(tokens', "neg").tokens = tokens]_vars
C22_Witness ==
    /\ last.op = "appendUnary"
    /\ last.arg = "reciprocal"
    /\ last.result = "backspace"
    /\ tokens = <<NumberToken("2"), BinaryToken("add"), GroupToken(<<NumberToken("2")>>)>>

\* C23: every Group token, at every depth, of the live formula and of the
\* history's formulas has contents that are not empty and hold no Open marker
\* and no Equals marker (directly).
RECURSIVE GroupsSound(_)
GroupsSound(toks) ==
    \A i \in 1..Len(toks) :
        toks[i].k = "g"
            => /\ Len(toks[i].tokens) > 0
               /\ \A j \in 1..Len(toks[i].tokens) :
                     ~(toks[i].tokens[j].k \in {"o", "e"})
               /\ GroupsSound(toks[i].tokens)
C23_GroupsSound ==
    /\ GroupsSound(tokens)
    /\ \A i \in 1..Len(history) : GroupsSound(history[i].formula)
C23_Witness ==
    /\ last.op = "appendClose"
    /\ tokens = <<GroupToken(<<GroupToken(<<NumberToken("2")>>)>>)>>
    /\ Len(history) = 1
    /\ history[1].formula = <<GroupToken(<<NumberToken("2")>>), EqToken>>

\* C24: an equals that is rejected (the formula empty, a Binary operator or
\* an Open marker last, or the formula complete already) changes neither the
\* formula nor the history: pressing "=" again on a complete formula adds no
\* history entry.
C24_RejectedEq ==
    [][(last'.op = "appendEq" /\ last'.result # "createAfter")
        => /\ tokens' = tokens
           /\ history' = history
           /\ historyIndices' = historyIndices
           /\ localStorage' = localStorage]_vars

\* The answer of the most recent history entry, 0 without history
LastAnswer == IF Len(history) > 0 THEN Last(history).ans ELSE Int_(0)

\* An environment whose last answer is v
Bound(v) == <<[ans |-> v]>>

\* C25: when "=" completes a formula, the answer displayed and stored in the
\* new history entry is the formula's value with every last-answer Symbol
\* bound to the answer of the most recent entry the history had before the
\* action (0 when it had none); the new entry is added after the entries
\* that were there.
C25_AnswerBeforeEntry ==
    [][(last'.op = "appendEq" /\ last'.result = "createAfter"
        /\ ~GroupToken_evaluate(Bound(LastAnswer), partial(tokens')).threw)
        => /\ Len(history') = Len(history) + 1
           /\ SubSeq(history', 1, Len(history)) = history
           /\ Last(history').ans
                = GroupToken_evaluate(Bound(LastAnswer), partial(tokens')).value
           /\ displayResult' = Last(history').ans
           /\ partialAns' = Last(history').ans]_vars

C25_Witness ==
    /\ last.op = "appendEq"
    /\ last.result = "createAfter"
    /\ tokens = <<SymbolToken("ans"), UnaryToken("neg"), EqToken>>
    /\ Len(history) = 2
    /\ history[1].ans = Int_(2)
    /\ history[2].ans = Int_(-2)
    /\ displayResult = Int_(-2)

\* The kinds of the tokens that stand for a value, and of those an operator
\* may follow
Values == {"n", "g", "s"}
Operands == {"n", "g", "s", "u"}

\* The i-th token of toks stands where the grammar allows its kind
Placed(toks, i) ==
    CASE toks[i].k \in {"b", "u"} -> i > 1 /\ toks[i - 1].k \in Operands
      [] toks[i].k \in Values \cup {"o"} -> i = 1 \/ toks[i - 1].k \in {"b", "o"}
      [] toks[i].k = "e" -> i > 1 /\ toks[i - 1].k \in Operands
      [] OTHER -> FALSE

RECURSIVE Grammatical(_)
Grammatical(toks) ==
    \A i \in 1..Len(toks) :
        /\ Placed(toks, i)
        /\ toks[i].k = "g" => Grammatical(toks[i].tokens)

\* C26: every reachable formula is well-formed, at top level and inside every
\* Group: a Binary or Unary operator is never first and follows a Number,
\* Group, Symbol or Unary; a Number, Group, Symbol or Open marker is first or
\* follows a Binary operator or an Open marker; an Equals marker follows a
\* Number, Group, Symbol or Unary.
C26_Grammatical == Grammatical(tokens)

C26_Witness ==
    /\ last.op = "appendSymbol"
    /\ last.result = "createAfter"
    /\ tokens = <<GroupToken(<<NumberToken("2"), UnaryToken("sqrt")>>),
                  BinaryToken("mul"), SymbolToken("ans")>>
=============================================================================
